---- MODULE Spec2Model ----
(***************************************************************************)
(* Model of src/src/main.rs: a trie built from input lines and printed as  *)
(* a DOT graph.                                                            *)
(*                                                                         *)
(* A Node is a record [sym, children]: sym is a one-character string       *)
(* (Some(c)) or None, children is the Vec<Node> as a sequence.  A String   *)
(* is the sequence of its chars.                                           *)
(***************************************************************************)
EXTENDS Integers, Sequences, FiniteSets

\* ---------------------------------------------------------------- bounds
\* longest input line, in chars
MaxLen == 3
\* number of lines read before EOF is forced
MaxLines == 2
\* highest address (in units of size_of::<Node>()) at which the allocator
\* may place the first Vec buffer
MaxBase == 2

\* longest string a merge operand is built from: three operands are merged
\* in every grouping and every iteration order
MaxOpLen == 2

\* the chars input lines are made of
Alphabet == {"I", "O"}

\* Option<char>::None
None == "None"

\* all lines of at most MaxLen chars
Strings == UNION {[1..k -> Alphabet] : k \in 0..MaxLen}

\* ------------------------------------------------------------------ Node
new_empty(sym) == [sym |-> sym, children |-> <<>>]

RECURSIVE _from_iter(_)
\* i is what the Chars iterator has not yielded yet
_from_iter(i) ==
    IF i # <<>>
    THEN [sym |-> Head(i), children |-> <<_from_iter(Tail(i))>>]
    ELSE new_empty(None)

\* mutant: the iterator has been advanced once before the chain is built
from_string_skips(s) == IF s = <<>> THEN _from_iter(s) ELSE _from_iter(Tail(s))

from_string(s) == _from_iter(s)

\* --------------------------------------------------------- _merge_node
\* What the program is left with when assert_eq! fails: the panic unwinds
\* through every caller, so a panic below makes the whole merge panic.
Panic == [sym |-> "Panic", children |-> <<>>]

\* mutant: only the children of n are iterated
chain_first(n, m) == n.children

\* n.children.into_iter().chain(m.children.into_iter())
chain(n, m) == n.children \o m.children

\* mutant: a sentinel child enters the table too, under the key None
is_grouped_always(c) == TRUE

\* the match on _n.sym: Some(sym) enters the table, None is a nop
is_grouped(c) == c.sym # None

\* the keys of children_by_sym after the grouping loop
group_syms(cs) == {cs[i].sym : i \in {j \in DOMAIN cs : is_grouped(cs[j])}}

\* children_by_sym[sym]: the Vec the nodes of one sym were pushed to, in
\* the order the chain yields them
group_of(cs, sym) == SelectSeq(cs, LAMBDA c : is_grouped(c) /\ c.sym = sym)

\* The orders in which `for (sym, nds) in children_by_sym` can visit the
\* keys: HashMap iteration order is unspecified (RandomState), so every
\* order is possible.
iter_orders(syms) ==
    {o \in [1..Cardinality(syms) -> syms] : \A s \in syms : \E i \in DOMAIN o : o[i] = s}

RECURSIVE _merge_node(_, _)
RECURSIVE fold_group(_, _)

\* mutant: `acc = n` in the place of `acc = _merge_node(acc, n)`
fold_group_overwrites(accs, nds) == IF nds = <<>> THEN accs ELSE {nds[Len(nds)]}

\* the inner loop `for n in nds { acc = _merge_node(acc, n) }`, from the
\* set of values acc may hold
fold_group(accs, nds) ==
    IF nds = <<>>
    THEN accs
    ELSE fold_group(UNION {_merge_node(acc, Head(nds)) : acc \in accs}, Tail(nds))

\* mutant: the children of n and m are put side by side, ungrouped
merge_node_concat(n, m) ==
    IF n.sym # m.sym THEN {Panic} ELSE {[sym |-> n.sym, children |-> chain(n, m)]}

\* The set of nodes _merge_node(n, m) may return (one per iteration order
\* of the hash maps involved), or {Panic}.
_merge_node(n, m) ==
    IF n.sym # m.sym
    THEN {Panic}
    ELSE LET cs == chain(n, m)
             syms == group_syms(cs)
             accs == [sym \in syms |-> fold_group({new_empty(sym)}, group_of(cs, sym))]
         IN  IF \E sym \in syms : Panic \in accs[sym]
             THEN {Panic}
             ELSE {[sym |-> n.sym, children |-> [i \in DOMAIN o |-> f[o[i]]]] :
                      o \in iter_orders(syms),
                      f \in {g \in [syms -> UNION {accs[sym] : sym \in syms}] :
                                 \A sym \in syms : g[sym] \in accs[sym]}}

\* ------------------------------------------------------------------ Trie
\* mutant: no root is ever found
position_never(children, m) == 0

\* mutant: the first root is taken whatever its symbol
position_first(children, m) == IF children = <<>> THEN 0 ELSE 1

\* self.children.iter().position(|n| n.sym == m.sym); 0 stands for None
position(children, m) ==
    LET hits == {i \in DOMAIN children : children[i].sym = m.sym}
    IN  IF hits = {} THEN 0 ELSE CHOOSE i \in hits : \A j \in hits : i <= j

\* Vec::remove(i)
remove(v, i) == SubSeq(v, 1, i - 1) \o SubSeq(v, i + 1, Len(v))

\* Trie::insert: the set of values self.children may have afterwards, or
\* {<<Panic>>} when the merge panics
insert(children, m) ==
    LET idx == position(children, m)
    IN  IF idx # 0
        THEN LET found == children[idx]
                 merged == _merge_node(found, m)
             IN  IF Panic \in merged
                 THEN {<<Panic>>}
                 ELSE {Append(remove(children, idx), new_node) : new_node \in merged}
        ELSE {Append(children, m)}

\* ------------------------------------------------------------ addresses
\* Addresses are counted in units of size_of::<Node>().  A Node lives in a
\* slot of the Vec buffer of its parent; a Vec that holds k > 0 nodes owns
\* a buffer of k consecutive slots starting at its ptr, and an empty Vec
\* owns no buffer (ptr 0).  The allocator gives live buffers disjoint
\* ranges; here it places them one after the other from `next` on.
RECURSIVE place_vec(_, _)
RECURSIVE place_node(_, _)

\* the nodes of one Vec, each with the buffers below it placed
place_vec(v, next) ==
    IF v = <<>>
    THEN [v |-> <<>>, next |-> next]
    ELSE LET h == place_node(Head(v), next)
             r == place_vec(Tail(v), h.next)
         IN  [v |-> <<h.node>> \o r.v, next |-> r.next]

place_node(n, next) ==
    IF n.children = <<>>
    THEN [node |-> [sym |-> n.sym, ptr |-> 0, children |-> <<>>], next |-> next]
    ELSE LET r == place_vec(n.children, next + Len(n.children))
         IN  [node |-> [sym |-> n.sym, ptr |-> next, children |-> r.v], next |-> r.next]

\* the Trie struct: its children Vec with the buffer at `base`
place_trie(children, base) ==
    IF children = <<>>
    THEN [ptr |-> 0, children |-> <<>>]
    ELSE [ptr |-> base, children |-> place_vec(children, base + Len(children)).v]

\* the address of v[i] for a Vec whose buffer starts at ptr
slot(ptr, i) == ptr + (i - 1)

\* -------------------------------------------------------------- print_dot
\* mutant: the id is derived from what the node holds, not from where it is
id_of_content(n, self) == <<"node_", n.sym, Len(n.children)>>

\* Node::id of the node n that lives at address self
id(n, self) == <<"node_", self>>

decl_line(ident, sym) == [line |-> "decl", id |-> ident, label |-> sym]
edge_line(from, to) == [line |-> "edge", from |-> from, to |-> to]

RECURSIVE node_print_dot(_, _)

\* mutant: the loop ends after its first round
print_children_once(n, self, i) ==
    IF i > 1 \/ i > Len(n.children) \/ n.children[i].sym = None
    THEN <<>>
    ELSE <<edge_line(id(n, self), id(n.children[i], n.ptr + (i - 1)))>>
         \o node_print_dot(n.children[i], n.ptr + (i - 1))

RECURSIVE print_children(_, _, _)

\* the loop `for nn in &self.children` from the i-th child on
print_children(n, self, i) ==
    IF i > Len(n.children)
    THEN <<>>
    ELSE LET nn == n.children[i]
             at == slot(n.ptr, i)
         IN  IF nn.sym = None
             THEN <<>>
             ELSE <<edge_line(id(n, self), id(nn, at))>>
                  \o node_print_dot(nn, at)
                  \o print_children(n, self, i + 1)

\* Node::print_dot: the lines it prints
node_print_dot(n, self) ==
    IF n.sym # None
    THEN <<decl_line(id(n, self), n.sym)>> \o print_children(n, self, 1)
    ELSE <<>>

RECURSIVE print_roots(_, _)
print_roots(h, i) ==
    IF i > Len(h.children)
    THEN <<>>
    ELSE node_print_dot(h.children[i], slot(h.ptr, i)) \o print_roots(h, i + 1)

\* Trie::print_dot
trie_print_dot(h) ==
    <<[line |-> "digraph {", rankdir |-> "LR"]>> \o print_roots(h, 1) \o <<[line |-> "}"]>>

\* ----------------------------------------------------------------- state
VARIABLES
    t,          \* main's `t`: the children of the Trie
    lines,      \* the trimmed lines read so far, oldest first
    m,          \* the Node built from the last line, until insert takes it
    pc,         \* where main is: "read", "insert", "done", "panicked"
    heap,       \* the trie as laid out in memory while it is printed
    out,        \* the lines printed to stdout
    ops,        \* three nodes a, b, c with one symbol, to be merged
    premerged,  \* which of them is itself the result of a merge, 0 for none
    res         \* the two results compared: the merges taken in two ways

vars == <<t, lines, m, pc, heap, out, ops, premerged, res>>
mvars == <<ops, premerged, res>>

\* no merges have been compared
NoRes == [kind |-> "none"]

\* a Node variable that holds no Node (moved out, or not yet built)
Moved == [sym |-> "Moved", children |-> <<>>]

Init ==
    /\ t = <<>>
    /\ lines = <<>>
    /\ m = Moved
    /\ pc = "read"
    /\ heap = place_trie(<<>>, 0)
    /\ out = <<>>
    /\ ops = <<>>
    /\ premerged = 0
    /\ res = NoRes

\* main: read_line returned a line; build its Node
ReadLine(s) ==
    /\ pc = "read"
    /\ Len(lines) < MaxLines
    /\ lines' = Append(lines, s)
    /\ m' = from_string(s)
    /\ pc' = "insert"
    /\ UNCHANGED <<t, heap, out, mvars>>

\* main: t.insert(m)
Insert ==
    /\ pc = "insert"
    /\ \E children \in insert(t, m) :
          IF children = <<Panic>>
          THEN /\ pc' = "panicked"
               /\ UNCHANGED t
          ELSE /\ pc' = "read"
               /\ t' = children
    /\ m' = Moved
    /\ UNCHANGED <<lines, heap, out, mvars>>

\* main: read_line returned Ok(0); t.print_dot()
PrintDot ==
    /\ pc = "read"
    /\ \E base \in 1..MaxBase :
          /\ heap' = place_trie(t, base)
          /\ out' = trie_print_dot(heap')
    /\ pc' = "done"
    /\ UNCHANGED <<t, lines, m, mvars>>

Next ==
    \/ \E s \in Strings : ReadLine(s)
    \/ Insert
    \/ PrintDot

Spec == Init /\ [][Next]_vars

\* ------------------------------------------------- _merge_node on its own
\* The merge as tests::can_merge_nodes calls it, on three nodes a, b, c
\* with one symbol: each is built by from_string, and one of them may then
\* be replaced by its merge with a further from_string node.
OpStrings == UNION {[1..k -> Alphabet] : k \in 0..MaxOpLen}

SameSymTriples ==
    {q \in [1..3 -> OpStrings] :
        from_string(q[1]).sym = from_string(q[2]).sym
        /\ from_string(q[2]).sym = from_string(q[3]).sym}

InitMerge ==
    /\ t = <<>>
    /\ lines = <<>>
    /\ m = Moved
    /\ pc = "merge"
    /\ heap = place_trie(<<>>, 0)
    /\ out = <<>>
    /\ \E q \in SameSymTriples : ops = [i \in 1..3 |-> from_string(q[i])]
    /\ premerged = 0
    /\ res = NoRes

\* ops[i] = _merge_node(ops[i], Node::from_string(s))
Premerge(i, s) ==
    /\ pc = "merge"
    /\ ops # <<>>
    /\ premerged = 0
    /\ from_string(s).sym = ops[i].sym
    /\ \E nm \in _merge_node(ops[i], from_string(s)) : ops' = [ops EXCEPT ![i] = nm]
    /\ premerged' = i
    /\ UNCHANGED <<t, lines, m, pc, heap, out, res>>

\* _merge_node(_merge_node(a, b), c) and _merge_node(a, _merge_node(b, c)),
\* each on its own copy of a, b, c; the merges consume the operands
Associate ==
    /\ pc = "merge"
    /\ ops # <<>>
    /\ LET lefts == UNION {_merge_node(ab, ops[3]) : ab \in _merge_node(ops[1], ops[2])}
           rights == UNION {_merge_node(ops[1], bc) : bc \in _merge_node(ops[2], ops[3])}
       IN  \E l \in lefts, r \in rights :
              res' = [kind |-> "assoc", left |-> l, right |-> r]
    /\ ops' = <<>>
    /\ pc' = "merged"
    /\ UNCHANGED <<t, lines, m, heap, out, premerged>>

\* _merge_node(a, b) and _merge_node(b, a)
Commute ==
    /\ pc = "merge"
    /\ ops # <<>>
    /\ \E l \in _merge_node(ops[1], ops[2]), r \in _merge_node(ops[2], ops[1]) :
          res' = [kind |-> "comm", left |-> l, right |-> r]
    /\ ops' = <<>>
    /\ pc' = "merged"
    /\ UNCHANGED <<t, lines, m, heap, out, premerged>>

NextMerge ==
    \/ \E i \in 1..3, s \in OpStrings : Premerge(i, s)
    \/ Associate
    \/ Commute

SpecMerge == InitMerge /\ [][NextMerge]_vars

\* ------------------------------------------------- vocabulary of the claims
RECURSIVE NodesOf(_)
\* every node of the subtree of n, n included
NodesOf(n) == {n} \cup UNION {NodesOf(n.children[i]) : i \in DOMAIN n.children}

\* every node reachable from a root of the trie
TrieNodes == UNION {NodesOf(t[i]) : i \in DOMAIN t}

RECURSIVE PathsOf(_)
\* the sequences of real symbols read from n downwards
PathsOf(n) ==
    IF n.sym = None
    THEN {}
    ELSE {<<n.sym>>} \cup
         {<<n.sym>> \o p : p \in UNION {PathsOf(n.children[i]) : i \in DOMAIN n.children}}

TriePaths == UNION {PathsOf(t[i]) : i \in DOMAIN t}

\* the non-empty prefixes of the lines read so far
LinePrefixes == UNION {{SubSeq(lines[i], 1, k) : k \in 1..Len(lines[i])} : i \in DOMAIN lines}

\* the last line is in the trie (or the program has printed it)
Inserted == pc \in {"read", "done"}

\* ---------------------------------------------------------------------- C1
\* C1: after any sequence of inserts of from_string nodes (the empty line
\* included) the roots of the trie have pairwise distinct symbols.
C1_RootsDistinct ==
    \A i, j \in DOMAIN t : i # j => t[i].sym # t[j].sym

\* two lines with the same first char were inserted, and one root holds both
C1_Witness ==
    /\ pc = "read"
    /\ Len(lines) = 2
    /\ lines[1] # <<>> /\ lines[2] # <<>>
    /\ lines[1][1] = lines[2][1]
    /\ Len(t) = 1

\* ---------------------------------------------------------------------- C2
\* C2: the real-symbol paths readable from the roots are exactly the
\* non-empty prefixes of the inserted lines; none is lost, none invented.
C2_PathsArePrefixes ==
    Inserted => TriePaths = LinePrefixes

\* the same three-char line was inserted twice
C2_Witness ==
    /\ pc = "read"
    /\ Len(lines) = 2
    /\ lines[1] = lines[2]
    /\ Len(lines[1]) = MaxLen
    /\ Cardinality(TriePaths) = MaxLen

\* ---------------------------------------------------------------------- C3
\* the two lines share the first char and differ in the second
C3_Case ==
    /\ pc = "read"
    /\ Len(lines) = 2
    /\ Len(lines[1]) >= 2 /\ Len(lines[2]) >= 2
    /\ lines[1][1] = lines[2][1]
    /\ lines[1][2] # lines[2][2]

\* the line from its second char on
Rest(s) == SubSeq(s, 2, Len(s))

RECURSIVE BareChain(_)
\* the chain of s whose last node has no child at all
BareChain(s) ==
    IF Len(s) = 1
    THEN new_empty(s[1])
    ELSE [sym |-> s[1], children |-> <<BareChain(Tail(s))>>]

\* one root with the shared symbol and exactly two children
C3_Fork ==
    /\ Len(t) = 1
    /\ t[1].sym = lines[1][1]
    /\ Len(t[1].children) = 2

\* C3 as stated: after "WIN" then "WON" the one root has two children, one
\* per second char, and each leads to the chain of the rest of its line
\* still ending in the sentinel.
C3_AsStated ==
    C3_Case =>
        /\ C3_Fork
        /\ \A k \in 1..2 : \E i \in 1..2 : t[1].children[i] = from_string(Rest(lines[k]))

\* C3 as amended: each child leads to the chain of the rest of its line,
\* whose last node has no children: the merge dropped the sentinel.
C3_ForkOfBareChains ==
    C3_Case =>
        /\ C3_Fork
        /\ \A k \in 1..2 : \E i \in 1..2 : t[1].children[i] = BareChain(Rest(lines[k]))

\* the analogue of "WIN" then "WON": same first and third char
C3_Witness ==
    /\ C3_Case
    /\ Len(lines[1]) = 3 /\ Len(lines[2]) = 3
    /\ lines[1][3] = lines[2][3]

\* ---------------------------------------------------------------------- C6
RECURSIVE IsChainOf(_, _)
\* n is the chain of the chars of s, one child each, closed by a sentinel
IsChainOf(n, s) ==
    IF s = <<>>
    THEN n.sym = None /\ n.children = <<>>
    ELSE /\ n.sym = Head(s)
         /\ Len(n.children) = 1
         /\ IsChainOf(n.children[1], Tail(s))

\* C6: from_string(s) is a chain of Len(s) nodes carrying the chars of s in
\* order, each with one child, closed by exactly one sentinel; for the
\* empty string it is the sentinel itself.
C6_FromStringIsChain ==
    pc = "insert" =>
        /\ IsChainOf(m, lines[Len(lines)])
        /\ Cardinality({n \in NodesOf(m) : n.sym = None}) = 1
        /\ Cardinality(NodesOf(m)) = Len(lines[Len(lines)]) + 1

\* a node was built from a line of full length, and one from the empty line
C6_Witness ==
    /\ pc = "insert"
    /\ Len(lines) = 2
    /\ lines[1] = <<>>
    /\ Len(lines[2]) = MaxLen

\* ---------------------------------------------------------------------- C8
\* C8: at every depth no two siblings carry the same symbol.
C8_SiblingsDistinct ==
    \A n \in TrieNodes : \A i, j \in DOMAIN n.children :
        i # j => n.children[i].sym # n.children[j].sym

\* a merge produced a node below the root that has two children
C8_Witness ==
    /\ pc = "read"
    /\ Len(lines) = 2
    /\ \E n \in TrieNodes : n # t[1] /\ Len(n.children) = 2

\* ---------------------------------------------------------------------- C9
\* C9: no merge, top-level or recursive, is ever called on two nodes with
\* different symbols: the assert_eq never fires.
C9_NeverPanics == pc # "panicked"

\* an insert merged two lines that share two chars, so merges recursed
C9_Witness ==
    /\ pc = "read"
    /\ Len(lines) = 2
    /\ Len(lines[1]) = 3 /\ Len(lines[2]) = 3
    /\ SubSeq(lines[1], 1, 2) = SubSeq(lines[2], 1, 2)
    /\ lines[1] # lines[2]

\* ------------------------------------------------ the trie while it prints
RECURSIVE Located(_, _)
\* every node of the subtree of the placed node n that lives at `self`,
\* with its address and the address of its parent (0 for a root)
Located(n, self) ==
    UNION {
        {[node |-> n.children[i], at |-> slot(n.ptr, i), parent |-> n, parentAt |-> self]}
        \cup Located(n.children[i], slot(n.ptr, i)) : i \in DOMAIN n.children}

\* every node of the printed trie; the roots have the Trie as parent
HeapNodes == Located([sym |-> "Trie", ptr |-> heap.ptr, children |-> heap.children], 0)

RealNodes == {x \in HeapNodes : x.node.sym # None}
Sentinels == {x \in HeapNodes : x.node.sym = None}
\* the parent-to-child links between two real nodes
RealLinks == {x \in RealNodes : x.parent.sym \notin {"Trie", None}}

IsReal(n) == n.sym \notin {"Trie", None}
IsNode(n) == n.sym # "Trie"

RECURSIVE CountNodes(_, _)
\* how many nodes of the subtree of n there are, counted along the tree;
\* with realOnly, how many real ones
CountNodes(n, realOnly) ==
    LET below[i \in 0..Len(n.children)] ==
            IF i = 0 THEN 0 ELSE below[i - 1] + CountNodes(n.children[i], realOnly)
    IN  (IF (IF realOnly THEN IsReal(n) ELSE IsNode(n)) THEN 1 ELSE 0)
        + below[Len(n.children)]

TrieRoot == [sym |-> "Trie", children |-> t]
\* a real node other than a root: its parent link is printed as an edge
RECURSIVE CountRealLinks(_)
CountRealLinks(n) ==
    LET below[i \in 0..Len(n.children)] ==
            IF i = 0 THEN 0
            ELSE below[i - 1] + CountRealLinks(n.children[i])
                 + (IF IsReal(n) /\ IsReal(n.children[i]) THEN 1 ELSE 0)
    IN  below[Len(n.children)]

OutLines(kind) == SelectSeq(out, LAMBDA l : l.line = kind)
Range(q) == {q[i] : i \in DOMAIN q}

\* ---------------------------------------------------------------------- C5
\* C5: print_dot prints exactly one declaration per real node reachable
\* from a root and exactly one edge per link to a real child; none is
\* missing, none is printed twice, and no sentinel is declared or used as
\* an endpoint of an edge.
C5_PrintsEachNodeAndEdgeOnce ==
    pc = "done" =>
        LET decls == OutLines("decl")
            edges == OutLines("edge")
            sentinelIds == {id(x.node, x.at) : x \in Sentinels}
        IN  /\ Len(decls) = CountNodes(TrieRoot, TRUE)
            /\ Range(decls) = {decl_line(id(x.node, x.at), x.node.sym) : x \in RealNodes}
            /\ Cardinality(Range(decls)) = Len(decls)
            /\ Len(edges) = CountRealLinks(TrieRoot)
            /\ Range(edges) =
                   {edge_line(id(x.parent, x.parentAt), id(x.node, x.at)) : x \in RealLinks}
            /\ Cardinality(Range(edges)) = Len(edges)
            /\ \A i \in DOMAIN decls : decls[i].id \notin sentinelIds
            /\ \A i \in DOMAIN edges :
                   edges[i].from \notin sentinelIds /\ edges[i].to \notin sentinelIds
            /\ Len(out) = Len(decls) + Len(edges) + 2

\* a trie with a merged root, an unmerged root and the empty line's root
\* was printed
C5_Witness ==
    /\ pc = "done"
    /\ Len(OutLines("edge")) >= 3
    /\ Len(OutLines("decl")) >= 4

\* ---------------------------------------------------------------------- C7
\* C7: while the trie is printed, distinct nodes have distinct ids, also
\* when they carry the same symbol above identical subtrees.
C7_IdsDistinct ==
    pc = "done" =>
        Cardinality({id(x.node, x.at) : x \in HeapNodes}) = CountNodes(TrieRoot, FALSE)

\* the two nodes for the third char of "WIN" and "WON" were printed
C7_Witness ==
    /\ pc = "done"
    /\ Len(lines) = 2
    /\ Len(lines[1]) = 3 /\ Len(lines[2]) = 3
    /\ lines[1][1] = lines[2][1]
    /\ lines[1][2] # lines[2][2]
    /\ lines[1][3] = lines[2][3]
    /\ \E x, y \in HeapNodes : x.node = y.node /\ x.at # y.at /\ x.node.sym # None

\* --------------------------------------------------------------------- C10
RECURSIVE node_print_dot_skipping(_, _)
\* Node::print_dot with `continue` in the place of `break`
node_print_dot_skipping(n, self) ==
    LET from_child[i \in 1..(Len(n.children) + 1)] ==
            IF i > Len(n.children)
            THEN <<>>
            ELSE IF n.children[i].sym = None
                 THEN from_child[i + 1]
                 ELSE <<edge_line(id(n, self), id(n.children[i], slot(n.ptr, i)))>>
                      \o node_print_dot_skipping(n.children[i], slot(n.ptr, i))
                      \o from_child[i + 1]
    IN  IF n.sym # None
        THEN <<decl_line(id(n, self), n.sym)>> \o from_child[1]
        ELSE <<>>

PrintedSkipping ==
    LET roots[i \in 1..(Len(heap.children) + 1)] ==
            IF i > Len(heap.children)
            THEN <<>>
            ELSE node_print_dot_skipping(heap.children[i], slot(heap.ptr, i)) \o roots[i + 1]
    IN  roots[1]

\* C10: a node with a sentinel child has no other child, so the break on
\* the first sentinel child skips no real sibling: stopping at the sentinel
\* and skipping it print the same.
C10_SentinelChildIsAlone ==
    /\ \A n \in TrieNodes :
           (\E i \in DOMAIN n.children : n.children[i].sym = None) => Len(n.children) = 1
    /\ pc = "done" => SubSeq(out, 2, Len(out) - 1) = PrintedSkipping

\* a trie was printed in which a real node has a sentinel child
C10_Witness ==
    /\ pc = "done"
    /\ Len(lines) = 2
    /\ Len(OutLines("edge")) >= 2
    /\ \E n \in TrieNodes : n.sym # None /\ \E i \in DOMAIN n.children : n.children[i].sym = None

\* ---------------------------------------------------------------------- C4
RECURSIVE SameTree(_, _)
\* x and y are equal as trees when the order of children is ignored
SameTree(x, y) ==
    /\ x.sym = y.sym
    /\ Len(x.children) = Len(y.children)
    /\ \E p \in [DOMAIN x.children -> DOMAIN y.children] :
          /\ \A i, j \in DOMAIN p : i # j => p[i] # p[j]
          /\ \A i \in DOMAIN p : SameTree(x.children[i], y.children[p[i]])

\* C4: for nodes a, b, c with one symbol, built by from_string or by an
\* earlier merge, merge(merge(a,b),c) and merge(a,merge(b,c)) are equal as
\* trees up to the order of children, and so are merge(a,b) and merge(b,a).
C4_MergeAssocComm ==
    res.kind # "none" => res.left # Panic /\ res.right # Panic /\ SameTree(res.left, res.right)

\* two groupings of three nodes, one of them a merge result, gave trees
\* that branch and differ in the order of their children
C4_Witness ==
    /\ res.kind = "assoc"
    /\ premerged # 0
    /\ res.left # res.right
    /\ Len(res.left.children) = 2
====
